---- MODULE Spec2Model ----
(***************************************************************************)
(* Model of lib/mincer/template.js: the Template base class, its evaluate  *)
(* extension point, the Template.libs registry and the require wrapper.    *)
(*                                                                         *)
(* JavaScript values are records [t, s]: t is the typeof tag and s is, for *)
(* a string, its contents as a sequence of tokens (so that concatenation   *)
(* is \o and "contains" is a contiguous sub-sequence), and for an object   *)
(* or a function its identity.                                             *)
(***************************************************************************)
EXTENDS Integers, Sequences, FiniteSets

\* ---------------------------------------------------------------- bounds
MaxInst == 2
MaxRegInst == 1

\* ---------------------------------------------------------------- values
UNDEF == [t |-> "undefined", s |-> << >>]
Str(s) == [t |-> "string", s |-> s]
Obj(id) == [t |-> "object", s |-> id]
Fn(id) == [t |-> "function", s |-> id]

\* String(v): the conversion the + operator applies to a non-string operand
ToString(v) ==
  CASE v.t = "string" -> v.s
    [] v.t = "undefined" -> <<"undefined">>
    [] v.t = "function" -> <<"function ">> \o v.s \o <<"() { [native code] }">>
    [] OTHER -> <<"[object Object]">>

\* a || b
Or(a, b) == IF a = UNDEF \/ a = Str(<< >>) THEN b ELSE a

\* String.prototype.indexOf(needle) >= 0
Contains(hay, needle) ==
  \E k \in 0..(Len(hay) - Len(needle)) : SubSeq(hay, k + 1, k + Len(needle)) = needle

LowerChar(c) == IF c = "W" THEN "w" ELSE IF c = "O" THEN "o" ELSE c
toLowerCase(s) == [k \in 1..Len(s) |-> LowerChar(s[k])]

\* ---------------------------------------------------------------- objects
\* An object: its own properties, which of them are writable, and the
\* constructor whose prototype it was created from.
NewObject(T) == [type |-> T, props |-> << >>, writable |-> {}]

\* common.prop: Object.defineProperty(obj, name, {value: value} + options)
prop(obj, name, value, options) ==
  [obj EXCEPT
     !.props = [n \in (DOMAIN obj.props) \cup {name} |->
                  IF n = name THEN value ELSE obj.props[n]],
     !.writable = IF "writable" \in options THEN @ \cup {name} ELSE @ \ {name}]

\* obj[name]
Get(obj, name) == IF name \in DOMAIN obj.props THEN obj.props[name] ELSE UNDEF

\* obj[name] = value, in strict or in sloppy code
Put(obj, name, value, strict) ==
  IF name \in obj.writable
  THEN [threw |-> FALSE,
        obj |-> [obj EXCEPT !.props = [n \in DOMAIN obj.props |->
                                         IF n = name THEN value ELSE obj.props[n]]]]
  ELSE [threw |-> strict, obj |-> obj]

\* ---------------------------------------------------------------- types
\* Template, the documented subclass MyProcessor that redefines evaluate,
\* and a subclass MyEngine that inherits without redefining it.
Types == {"Template", "MyProcessor", "MyEngine"}

\* util.inherits(T, Template): T.prototype's parent, T.prototype.constructor
ProtoChain(T) == IF T = "Template" THEN <<"Template">> ELSE <<T, "Template">>
ConstructorName(T) == Str(<<T>>)

OwnMethods(T) ==
  CASE T = "Template" -> {"evaluate", "require"}
    [] T = "MyProcessor" -> {"evaluate"}
    [] OTHER -> {}

\* lookup that ignores the subclass prototype
LookupBase(T, m) == "Template"
\* property lookup along the prototype chain
Lookup(T, m) ==
  LET chain == ProtoChain(T)
      hits == {k \in 1..Len(chain) : m \in OwnMethods(chain[k])}
  IN chain[CHOOSE k \in hits : \A j \in hits : k <= j]

\* ---------------------------------------------------------------- results
Return(v) == [out |-> "return", val |-> v, err |-> "", msg |-> << >>]
Throw(e, m) == [out |-> "throw", val |-> UNDEF, err |-> e, msg |-> m]

\* ---------------------------------------------------------------- Template
\* variants: file defined writable; data defaulted when absent
Template_fileWritable(this, file, data) ==
  prop(prop(this, "data", data, {"writable"}), "file", file, {"writable"})
Template_defaultData(this, file, data) ==
  prop(prop(this, "data", Or(data, Str(<< >>)), {"writable"}), "file", file, {})
\* prop(this, 'data', data, {writable: true}); prop(this, 'file', file);
Template(this, file, data) ==
  prop(prop(this, "data", data, {"writable"}), "file", file, {})

\* variant: the message names the base class
Template_evaluate_baseName(this) ==
  Throw("NotImplemented", <<"Template">> \o <<"#evaluate() is not implemented.">>)
\* throw new Error((this.constructor.name || '') + '#evaluate() is not implemented.')
Template_evaluate(this) ==
  Throw("NotImplemented",
        Or(ConstructorName(this.type), Str(<< >>)).s \o <<"#evaluate() is not implemented.">>)

\* the documented override: var data = this.data.toLowerCase(); return data;
MyProcessor_evaluate(this) ==
  IF Get(this, "data").t = "string"
  THEN Return(Str(toLowerCase(Get(this, "data").s)))
  ELSE Throw("TypeError", <<"Cannot read property 'toLowerCase' of undefined">>)

\* this.evaluate(context, locals)
CallEvaluate(this) ==
  IF Lookup(this.type, "evaluate") = "MyProcessor"
  THEN MyProcessor_evaluate(this)
  ELSE Template_evaluate(this)

\* ---------------------------------------------------------------- loader
\* The ambient loader: one installed module, one that is not installed, and
\* one that is installed but throws while it is being loaded.
ModuleNames == {Str(<<"ejs">>), Str(<<"stylus">>), Str(<<"broken">>)}
ModuleStatus(name) ==
  CASE name = Str(<<"ejs">>) -> "installed"
    [] name = Str(<<"broken">>) -> "broken"
    [] OTHER -> "missing"

\* require(name) of the module system: a module is loaded once and then
\* served from the module cache
NodeRequire(name, c) ==
  CASE ModuleStatus(name) = "installed" ->
         IF name \in DOMAIN c
         THEN [threw |-> FALSE, val |-> c[name], err |-> "", hit |-> TRUE, cache |-> c]
         ELSE LET m == Obj(<<"module">> \o name.s \o [k \in 1..(Cardinality(DOMAIN c) + 1) |-> "I"])
              IN [threw |-> FALSE, val |-> m, err |-> "", hit |-> FALSE,
                  cache |-> [n \in (DOMAIN c) \cup {name} |-> IF n = name THEN m ELSE c[n]]]
    [] ModuleStatus(name) = "broken" ->
         [threw |-> TRUE, val |-> UNDEF, err |-> "ModuleLoadError", hit |-> FALSE, cache |-> c]
    [] OTHER ->
         [threw |-> TRUE, val |-> UNDEF, err |-> "MODULE_NOT_FOUND", hit |-> FALSE, cache |-> c]

\* the grave accent character, as a one-character string
Grave == <<"U+0060">>

\* variants: message without the file; the module's default export returned;
\* only a module-not-found failure wrapped
Template_require_noFile(this, name, c) ==
  LET r == NodeRequire(name, c)
  IN [res |-> IF r.threw
              THEN Throw("DependencyMissing",
                         <<"Cannot find module ">> \o Grave \o ToString(name) \o Grave)
              ELSE Return(r.val),
      hit |-> r.hit, loads |-> 1, cache |-> r.cache]
Template_require_unwrap(this, name, c) ==
  LET r == NodeRequire(name, c)
  IN [res |-> IF r.threw
              THEN Throw("DependencyMissing",
                         <<"Cannot find module ">> \o Grave \o ToString(name) \o Grave \o
                         <<" required for file '">> \o ToString(Get(this, "file")) \o <<"'">>)
              ELSE Return(Obj(r.val.s \o <<".default">>)),
      hit |-> r.hit, loads |-> 1, cache |-> r.cache]
Template_require_rethrow(this, name, c) ==
  LET r == NodeRequire(name, c)
  IN [res |-> IF r.threw
              THEN IF r.err = "MODULE_NOT_FOUND"
                   THEN Throw("DependencyMissing",
                              <<"Cannot find module ">> \o Grave \o ToString(name) \o Grave \o
                              <<" required for file '">> \o ToString(Get(this, "file")) \o <<"'">>)
                   ELSE Throw(r.err, << >>)
              ELSE Return(r.val),
      hit |-> r.hit, loads |-> 1, cache |-> r.cache]
\* try { return require(name); } catch (err) { throw new Error(...); }
Template_require(this, name, c) ==
  LET r == NodeRequire(name, c)
  IN [res |-> IF r.threw
              THEN Throw("DependencyMissing",
                         <<"Cannot find module ">> \o Grave \o ToString(name) \o Grave \o
                         <<" required for file '">> \o ToString(Get(this, "file")) \o <<"'">>)
              ELSE Return(r.val),
      hit |-> r.hit, loads |-> 1, cache |-> r.cache]

\* ---------------------------------------------------------------- registry
\* Template.libs = {}: an ordinary object, whose prototype is Object.prototype
LibKeys == {<<"ejs">>, <<"constructor">>}
LibValues == {Obj(<<"lib", "1">>), Obj(<<"lib", "2">>)}
ObjectPrototypeKeys == {<<"constructor">>, <<"toString">>, <<"valueOf">>, <<"hasOwnProperty">>}
ObjectPrototype(key) == IF key = <<"constructor">> THEN Fn(<<"Object">>) ELSE Fn(key)

\* Template.libs[key]
LibsRead(l, key) ==
  IF key \in DOMAIN l THEN l[key]
  ELSE IF key \in ObjectPrototypeKeys THEN ObjectPrototype(key)
  ELSE UNDEF

\* Template.libs[key] = value
LibsWrite(l, key, value) ==
  [k \in (DOMAIN l) \cup {key} |-> IF k = key THEN value ELSE l[k]]

\* ---------------------------------------------------------------- state
VARIABLES
  instances,   \* the Template instances constructed so far
  fileArg,     \* for each instance, the file its constructor was given
  cache,       \* the loader's module cache
  returned,    \* for each module name, the references require has returned
  libs,        \* Template.libs
  written,     \* for each registry key, the value of the latest write to it
  last         \* the latest operation and its outcome

vars == <<instances, fileArg, cache, returned, libs, written, last>>

FileValues == {UNDEF, Str(<<"a", ".tpl">>)}
DataValues == {UNDEF, Str(<<"W", "O">>)}
ArgValues == {UNDEF, Obj(<<"arg">>)}

Op(op, i, a, b, res) ==
  [op |-> op, i |-> i, a |-> a, b |-> b, out |-> res.out, val |-> res.val,
   err |-> res.err, msg |-> res.msg, loads |-> 0, hit |-> FALSE]

Init ==
  /\ instances = << >>
  /\ fileArg = << >>
  /\ cache = << >>
  /\ returned = [n \in ModuleNames |-> {}]
  /\ libs = << >>
  /\ written = << >>
  /\ last = Op("init", 0, UNDEF, UNDEF, Return(UNDEF))

\* new T(file, data), while fewer than max instances exist
New(max, T, file, data) ==
  /\ Len(instances) < max
  /\ instances' = Append(instances, Template(NewObject(T), file, data))
  /\ fileArg' = Append(fileArg, file)
  /\ last' = Op("new", Len(instances) + 1, file, data, Return(UNDEF))
  /\ UNCHANGED <<cache, returned, libs, written>>

\* SetData as it would be were data a property of the shared prototype
SetData_shared(i, v) ==
  /\ instances' = [j \in DOMAIN instances |-> Put(instances[j], "data", v, TRUE).obj]
  /\ last' = Op("setData", i, v, UNDEF, Return(v))
  /\ UNCHANGED <<fileArg, cache, returned, libs, written>>
\* instance.data = v
SetData(i, v) ==
  /\ instances' = [instances EXCEPT ![i] = Put(@, "data", v, TRUE).obj]
  /\ last' = Op("setData", i, v, UNDEF, Return(v))
  /\ UNCHANGED <<fileArg, cache, returned, libs, written>>

\* instance.file = v, attempted from strict or from sloppy code
SetFile(i, v, strict) ==
  LET r == Put(instances[i], "file", v, strict)
  IN /\ instances' = [instances EXCEPT ![i] = r.obj]
     /\ last' = Op("setFile", i, v, UNDEF,
                   IF r.threw
                   THEN Throw("TypeError", <<"Cannot assign to read only property 'file'">>)
                   ELSE Return(v))
     /\ UNCHANGED <<fileArg, cache, returned, libs, written>>

\* instance.evaluate(context, locals)
Evaluate(i, context, locals) ==
  /\ last' = Op("evaluate", i, context, locals, CallEvaluate(instances[i]))
  /\ UNCHANGED <<instances, fileArg, cache, returned, libs, written>>

\* Require as it would be if it also registered the loaded module in Template.libs
Require_registers(i, name) ==
  LET r == Template_require(instances[i], name, cache)
  IN /\ cache' = r.cache
     /\ returned' = IF r.res.out = "return"
                    THEN [returned EXCEPT ![name] = @ \cup {r.res.val}]
                    ELSE returned
     /\ last' = [Op("require", i, name, UNDEF, r.res) EXCEPT !.loads = r.loads, !.hit = r.hit]
     /\ libs' = IF r.res.out = "return" THEN LibsWrite(libs, ToString(name), r.res.val) ELSE libs
     /\ UNCHANGED <<instances, fileArg, written>>
\* instance.require(name)
Require(i, name) ==
  LET r == Template_require(instances[i], name, cache)
  IN /\ cache' = r.cache
     /\ returned' = IF r.res.out = "return"
                    THEN [returned EXCEPT ![name] = @ \cup {r.res.val}]
                    ELSE returned
     /\ last' = [Op("require", i, name, UNDEF, r.res) EXCEPT !.loads = r.loads, !.hit = r.hit]
     /\ UNCHANGED <<instances, fileArg, libs, written>>

\* Template.libs[key] = value, done by a concrete engine
LibsSet(key, value) ==
  /\ libs' = LibsWrite(libs, key, value)
  /\ written' = [k \in (DOMAIN written) \cup {key} |-> IF k = key THEN value ELSE written[k]]
  /\ last' = Op("libsSet", 0, Str(key), value, Return(value))
  /\ UNCHANGED <<instances, fileArg, cache, returned>>

\* Template.libs[key], read by a concrete engine
LibsGet(key) ==
  /\ last' = Op("libsGet", 0, Str(key), UNDEF, Return(LibsRead(libs, key)))
  /\ UNCHANGED <<instances, fileArg, cache, returned, libs, written>>

Next ==
  \/ \E T \in Types, file \in FileValues, data \in DataValues : New(MaxInst, T, file, data)
  \/ \E i \in DOMAIN instances, v \in DataValues : SetData(i, v)
  \/ \E i \in DOMAIN instances, v \in FileValues, strict \in BOOLEAN : SetFile(i, v, strict)
  \/ \E i \in DOMAIN instances, context \in ArgValues, locals \in ArgValues :
       Evaluate(i, context, locals)
  \/ \E i \in DOMAIN instances, name \in ModuleNames : Require(i, name)

\* the instance operations together with the registry's reads and writes
NextRegistry ==
  \/ \E T \in Types, file \in FileValues, data \in DataValues : New(MaxRegInst, T, file, data)
  \/ \E i \in DOMAIN instances, v \in DataValues : SetData(i, v)
  \/ \E i \in DOMAIN instances, v \in FileValues, strict \in BOOLEAN : SetFile(i, v, strict)
  \/ \E i \in DOMAIN instances, context \in ArgValues, locals \in ArgValues :
       Evaluate(i, context, locals)
  \/ \E i \in DOMAIN instances, name \in ModuleNames : Require(i, name)
  \/ \E key \in LibKeys, value \in LibValues : LibsSet(key, value)
  \/ \E key \in LibKeys : LibsGet(key)

Spec == Init /\ [][Next]_vars
SpecRegistry == Init /\ [][NextRegistry]_vars

\* ---------------------------------------------------------------- claims
NotOverriding == {"Template", "MyEngine"}
LoaderErrors == {"MODULE_NOT_FOUND", "ModuleLoadError"}
LastInstance == instances[last.i]

\* C1: in every reachable state every instance's file equals the file value
\* its constructor was given, whatever data assignments, evaluations,
\* require calls, registry writes and attempted assignments to file happened.
C1_FileNeverChanges ==
  \A i \in DOMAIN instances : Get(instances[i], "file") = fileArg[i]

C1_Witness ==
  /\ last.op = "setFile"
  /\ last.a # fileArg[last.i]
  /\ DOMAIN libs # {}
  /\ DOMAIN cache # {}

\* C2: construction succeeds for every pair of arguments, undefined ones
\* included, and right afterwards file and data read back as exactly the
\* arguments.
C2_ConstructorStoresArguments ==
  last.op = "new" =>
    /\ last.out = "return"
    /\ Get(LastInstance, "file") = last.a
    /\ Get(LastInstance, "data") = last.b

C2_Witness ==
  /\ last.op = "new"
  /\ last.a = UNDEF
  /\ last.b = UNDEF
  /\ Get(LastInstance, "data") = UNDEF

\* C3: evaluate on an instance whose type does not redefine it throws the
\* not-implemented error, and the message contains the name of the instance's
\* own type, for the base and for its subclasses alike.
C3_BaseEvaluateNotImplemented ==
  (last.op = "evaluate" /\ LastInstance.type \in NotOverriding) =>
    /\ last.out = "throw"
    /\ last.err = "NotImplemented"
    /\ Contains(last.msg, <<LastInstance.type>>)

C3_Witness ==
  /\ last.op = "evaluate"
  /\ LastInstance.type = "MyEngine"
  /\ last.a # UNDEF
  /\ last.err = "NotImplemented"

\* C4: when the loader cannot find the module, require throws the
\* missing-dependency error, whose message contains the name and the file of
\* the instance require was called on.
C4_MissingDependencyMessage ==
  (last.op = "require" /\ ModuleStatus(last.a) = "missing") =>
    /\ last.out = "throw"
    /\ last.err = "DependencyMissing"
    /\ Contains(last.msg, ToString(last.a))
    /\ Contains(last.msg, ToString(fileArg[last.i]))

C4_Witness ==
  /\ last.op = "require"
  /\ ModuleStatus(last.a) = "missing"
  /\ last.err = "DependencyMissing"
  /\ \E j \in DOMAIN instances : fileArg[j] # fileArg[last.i]

\* C5: for a module that can be loaded, require returns the very reference
\* the loader holds for it, and all calls for one name, from whichever
\* instance, return the same reference.
C5_RequireSameReference ==
  /\ (last.op = "require" /\ ModuleStatus(last.a) = "installed") =>
       /\ last.out = "return"
       /\ last.a \in DOMAIN cache
       /\ last.val = cache[last.a]
  /\ \A n \in ModuleNames : Cardinality(returned[n]) <= 1

C5_Witness ==
  /\ last.op = "require"
  /\ last.out = "return"
  /\ last.hit
  /\ last.i = 2

\* C6: an operation on one instance leaves the data and the file of every
\* other instance as they were.
C6_InstancesDoNotInterfere ==
  [][\A j \in DOMAIN instances :
       last'.i # j =>
         /\ Get(instances'[j], "data") = Get(instances[j], "data")
         /\ Get(instances'[j], "file") = Get(instances[j], "file")]_vars

C6_Witness ==
  /\ last.op = "setData"
  /\ \E j \in DOMAIN instances :
       /\ j # last.i
       /\ Get(instances[j], "data") # last.a
       /\ fileArg[j] # fileArg[last.i]

\* C7: a read of registry key k returns the value of the latest write to k,
\* and undefined when k was never written.
C7_RegistryLastWriteWins ==
  last.op = "libsGet" =>
    /\ last.out = "return"
    /\ last.val = IF last.a.s \in DOMAIN written THEN written[last.a.s] ELSE UNDEF

\* C8: the registry is empty at the start, and constructing an instance,
\* the base evaluate and require, successful or not, leave its keys and
\* values unchanged.
C8_BaseNeverMutatesRegistry ==
  /\ libs = << >>
  /\ [][last'.op \in {"new", "evaluate", "require"} => libs' = libs]_vars

C8_Witness ==
  /\ last.op = "require"
  /\ last.out = "return"
  /\ DOMAIN libs # {}
  /\ ToString(last.a) \notin DOMAIN libs

\* C9: on an instance whose type redefines evaluate the call runs the
\* redefinition on the instance's current data and never throws the
\* not-implemented error; only types that do not redefine it get that error.
C9_EvaluateDispatchesOnType ==
  /\ (last.op = "evaluate" /\ LastInstance.type = "MyProcessor") =>
       /\ last.err # "NotImplemented"
       /\ Get(LastInstance, "data") = Str(<<"W", "O">>) =>
            (last.out = "return" /\ last.val = Str(<<"w", "o">>))
  /\ (last.op = "evaluate" /\ last.err = "NotImplemented") =>
       LastInstance.type \in NotOverriding

C9_Witness ==
  /\ last.op = "evaluate"
  /\ LastInstance.type = "MyProcessor"
  /\ last.val = Str(<<"w", "o">>)
  /\ last.b # UNDEF

\* C10: require calls the loader once, and whatever made the loader fail the
\* caller gets the missing-dependency error naming the module and the file,
\* never the loader's own error and never a value.
C10_RequireWrapsEveryLoaderFailure ==
  last.op = "require" =>
    /\ last.loads = 1
    /\ last.err \notin LoaderErrors
    /\ ModuleStatus(last.a) # "installed" =>
         /\ last.out = "throw"
         /\ last.val = UNDEF
         /\ last.err = "DependencyMissing"
         /\ Contains(last.msg, ToString(last.a))
         /\ Contains(last.msg, ToString(fileArg[last.i]))

C10_Witness ==
  /\ last.op = "require"
  /\ ModuleStatus(last.a) = "broken"
  /\ last.err = "DependencyMissing"
====
